---------------------------- MODULE Spec2Model ----------------------------
(***************************************************************************)
(* A model of repo-analytics: the Python 3.12 lexical classifier           *)
(* (keyword_analytics.py, py312_language.py) and the caching web front end *)
(* (app.py).  Text is modelled as a sequence of one-character strings, so  *)
(* that stripping, suffix tests, the short-form pattern and the scanner    *)
(* are computed character by character as the code computes them.          *)
(***************************************************************************)
EXTENDS Integers, Sequences, FiniteSets, TLC

(***************************************************************************)
(* Language reference (py312_language.py)                                  *)
(***************************************************************************)
PY312_KWLIST ==
    { "False", "None", "True", "and", "as", "assert", "async", "await",
      "break", "class", "continue", "def", "del", "elif", "else", "except",
      "finally", "for", "from", "global", "if", "import", "in", "is",
      "lambda", "nonlocal", "not", "or", "pass", "raise", "return", "try",
      "while", "with", "yield" }

PY312_SOFTKWLIST == { "_", "case", "match", "type" }

PY312_KEYWORDS == PY312_KWLIST \cup PY312_SOFTKWLIST

PY312_BUILTIN_FUNCTIONS ==
    { "abs", "aiter", "all", "anext", "any", "ascii", "bin", "bool", "breakpoint",
      "bytearray", "bytes", "callable", "chr", "classmethod", "compile", "complex",
      "delattr", "dict", "dir", "divmod", "enumerate", "eval", "exec", "filter",
      "float", "format", "frozenset", "getattr", "globals", "hasattr", "hash",
      "help", "hex", "id", "input", "int", "isinstance", "issubclass", "iter",
      "len", "list", "locals", "map", "max", "memoryview", "min", "next",
      "object", "oct", "open", "ord", "pow", "print", "property", "range",
      "repr", "reversed", "round", "set", "setattr", "slice", "sorted",
      "staticmethod", "str", "sum", "super", "tuple", "type", "vars", "zip",
      "__import__", "__build_class__" }

PY312_BUILTIN_CONSTANTS_AND_TYPES ==
    { "None", "Ellipsis", "NotImplemented", "False", "True",
      "bool", "memoryview", "bytearray", "bytes", "classmethod", "complex",
      "dict", "enumerate", "filter", "float", "frozenset", "property", "int",
      "list", "map", "object", "range", "reversed", "set", "slice",
      "staticmethod", "str", "super", "tuple", "type", "zip" }

PY312_BUILTIN_EXCEPTIONS ==
    { "BaseException", "Exception", "ArithmeticError", "AssertionError",
      "AttributeError", "BlockingIOError", "BrokenPipeError", "BufferError",
      "BytesWarning", "ChildProcessError", "ConnectionAbortedError",
      "ConnectionError", "ConnectionRefusedError", "ConnectionResetError",
      "DeprecationWarning", "EOFError", "EncodingWarning", "EnvironmentError",
      "FileExistsError", "FileNotFoundError", "FloatingPointError",
      "FutureWarning", "GeneratorExit", "OSError", "ImportError",
      "ImportWarning", "IndentationError", "IndexError", "InterruptedError",
      "IsADirectoryError", "KeyError", "KeyboardInterrupt", "LookupError",
      "MemoryError", "ModuleNotFoundError", "NameError", "NotImplementedError",
      "OverflowError", "PendingDeprecationWarning", "PermissionError",
      "ProcessLookupError", "RecursionError", "ReferenceError", "ResourceWarning",
      "RuntimeError", "RuntimeWarning", "StopAsyncIteration", "StopIteration",
      "SyntaxError", "SyntaxWarning", "SystemError", "SystemExit", "TabError",
      "TimeoutError", "TypeError", "UnboundLocalError", "UnicodeDecodeError",
      "UnicodeEncodeError", "UnicodeError", "UnicodeTranslateError", "UnicodeWarning",
      "UserWarning", "ValueError", "Warning", "ZeroDivisionError",
      "BaseExceptionGroup", "ExceptionGroup" }

PY312_BUILTINS ==
    PY312_BUILTIN_FUNCTIONS \cup PY312_BUILTIN_CONSTANTS_AND_TYPES
        \cup PY312_BUILTIN_EXCEPTIONS

PY312_SPECIAL_METHODS ==
    { "__init__", "__new__", "__del__", "__repr__", "__str__", "__bytes__",
      "__format__", "__lt__", "__le__", "__eq__", "__ne__", "__gt__", "__ge__",
      "__hash__", "__bool__", "__getattribute__", "__getattr__", "__setattr__",
      "__delattr__", "__dir__", "__set_name__", "__init_subclass__", "__prepare__",
      "__instancecheck__", "__subclasscheck__", "__class_getitem__",
      "__get__", "__set__", "__delete__",
      "__call__",
      "__len__", "__length_hint__", "__getitem__", "__setitem__", "__delitem__",
      "__iter__", "__reversed__", "__contains__", "__missing__",
      "__add__", "__sub__", "__mul__", "__matmul__", "__truediv__", "__floordiv__",
      "__mod__", "__divmod__", "__pow__", "__lshift__", "__rshift__", "__and__",
      "__xor__", "__or__",
      "__radd__", "__rsub__", "__rmul__", "__rmatmul__", "__rtruediv__",
      "__rfloordiv__", "__rmod__", "__rdivmod__", "__rpow__", "__rlshift__",
      "__rrshift__", "__rand__", "__rxor__", "__ror__",
      "__iadd__", "__isub__", "__imul__", "__imatmul__", "__itruediv__",
      "__ifloordiv__", "__imod__", "__ipow__", "__ilshift__", "__irshift__",
      "__iand__", "__ixor__", "__ior__",
      "__neg__", "__pos__", "__abs__", "__invert__", "__complex__", "__int__",
      "__float__", "__index__", "__round__", "__trunc__", "__floor__", "__ceil__",
      "__enter__", "__exit__",
      "__await__", "__aiter__", "__anext__", "__aenter__", "__aexit__",
      "__coroutine__",
      "__buffer__", "__release_buffer__",
      "__mro_entries__", "__getnewargs__", "__getnewargs_ex__",
      "__reduce__", "__reduce_ex__", "__copy__", "__deepcopy__",
      "__doc__", "__module__", "__name__", "__qualname__", "__class__",
      "__dict__", "__weakref__", "__bases__", "__mro__", "__subclasses__",
      "__sizeof__", "__fspath__" }

(***************************************************************************)
(* Text as a sequence of characters                                        *)
(***************************************************************************)
Letters ==
    { "a", "b", "c", "d", "e", "f", "g", "h", "i", "j", "k", "l", "m",
      "n", "o", "p", "q", "r", "s", "t", "u", "v", "w", "x", "y", "z",
      "A", "B", "C", "D", "E", "F", "G", "H", "I", "J", "K", "L", "M",
      "N", "O", "P", "Q", "R", "S", "T", "U", "V", "W", "X", "Y", "Z" }

Digits == { "0", "1", "2", "3", "4", "5", "6", "7", "8", "9" }

\* the characters the regular expression class \w matches
WordChars == Letters \cup Digits \cup { "_" }

\* the characters str.strip() removes
Whitespace == { " ", "\t", "\n", "\r" }

\* Each operator below that walks a text binds the text it was given to a
\* value first (x \in {text}), so that the walk reads a value.

\* the string a character sequence spells
RECURSIVE JoinFrom(_, _)
JoinFrom(cs, i) == IF i > Len(cs) THEN "" ELSE cs[i] \o JoinFrom(cs, i + 1)

Join(cs) == CHOOSE out \in { JoinFrom(x, 1) : x \in {cs} } : TRUE

\* the concatenation of a sequence of character sequences
RECURSIVE FlattenFrom(_, _)
FlattenFrom(ss, i) == IF i > Len(ss) THEN << >> ELSE ss[i] \o FlattenFrom(ss, i + 1)

Flatten(ss) == CHOOSE out \in { FlattenFrom(x, 1) : x \in {ss} } : TRUE

\* str.strip(): the text between the first and the last character that is
\* not white space
StripOf(s) ==
    LET keep == { i \in 1..Len(s) : s[i] \notin Whitespace } IN
    IF keep = {} THEN << >>
    ELSE SubSeq(s, CHOOSE i \in keep : \A j \in keep : i <= j,
                   CHOOSE i \in keep : \A j \in keep : i >= j)

Strip(s) == CHOOSE out \in { StripOf(x) : x \in {s} } : TRUE

\* str.endswith(suffix)
EndsWith(s, suffix) ==
    /\ Len(s) >= Len(suffix)
    /\ SubSeq(s, Len(s) - Len(suffix) + 1, Len(s)) = suffix

\* sub in s
Contains(s, sub) ==
    \E i \in 1..(Len(s) - Len(sub) + 1) : SubSeq(s, i, i + Len(sub) - 1) = sub

GithubCom == << "g", "i", "t", "h", "u", "b", ".", "c", "o", "m" >>

HttpsGithub == << "h", "t", "t", "p", "s", ":", "/", "/" >> \o GithubCom \o << "/" >>

DotGit == << ".", "g", "i", "t" >>

(***************************************************************************)
(* keyword_analytics._normalize_repo_url and app._cache_key                *)
(***************************************************************************)
\* the characters of the class [\w.-]
IsRepoChar(c) == c \in WordChars \cup { ".", "-" }

\* re.match(r"^[\w.-]+/[\w.-]+$", s): one "/", a non-empty run of the class
\* on each side of it, nothing else
MatchesOwnerName(s) ==
    \E i \in 2..(Len(s) - 1) :
        /\ s[i] = "/"
        /\ \A j \in (1..Len(s)) \ {i} : IsRepoChar(s[j])

NormalizeStripped(s) ==
    IF MatchesOwnerName(s) THEN HttpsGithub \o s \o DotGit
    ELSE IF Contains(s, GithubCom) /\ ~EndsWith(s, DotGit)
         THEN (IF EndsWith(s, << "/" >>) THEN s ELSE s \o DotGit)
         ELSE s

_normalize_repo_url(repo_input) ==
    CHOOSE out \in { NormalizeStripped(s) : s \in { Strip(repo_input) } } : TRUE

\* hashlib.sha256(url.encode()).hexdigest()[:24]: a fixed-width fingerprint
\* of the text; distinct texts of the model get distinct fingerprints
Sha256Hex24(url) == << "sha256/24", Join(url) >>

_cache_key(repo) == Sha256Hex24(_normalize_repo_url(repo))

(***************************************************************************)
(* tokenize.generate_tokens, restricted to what decides the NAME tokens:   *)
(* identifiers, blanks, line ends with the indentation stack, and round    *)
(* brackets.  Every other character ends a name and is no NAME token.      *)
(***************************************************************************)
ScanInit ==
    [ toks |-> << >>, cur |-> << >>, paren |-> 0, indents |-> << 0 >>,
      bol |-> TRUE, col |-> 0, fault |-> "none" ]

\* a finished identifier becomes a NAME token; a run that begins with a
\* digit is a number, not a name
FlushName(st) ==
    IF st.cur = << >> THEN st
    ELSE IF st.cur[1] \in Digits THEN [st EXCEPT !.cur = << >>]
    ELSE [st EXCEPT !.toks = Append(@, Join(st.cur)), !.cur = << >>]

\* the stack without the levels deeper than col
PopIndents(indents, col) ==
    SubSeq(indents, 1, Cardinality({ k \in 1..Len(indents) : indents[k] <= col }))

\* the first token of a logical line at column st.col: INDENT, DEDENT, or
\* "unindent does not match any outer indentation level"
Dent(st) ==
    LET top == st.indents[Len(st.indents)] IN
    IF st.col > top THEN [st EXCEPT !.indents = Append(@, st.col), !.bol = FALSE]
    ELSE IF st.col < top /\ ~(\E k \in 1..Len(st.indents) : st.indents[k] = st.col)
         THEN [st EXCEPT !.fault = "IndentationError"]
         ELSE [st EXCEPT !.indents = PopIndents(@, st.col), !.bol = FALSE]

\* a character that is no part of a name, after the name before it: the
\* bracket level goes up and down, and a line end at level 0 begins a new
\* logical line
ScanOther(f, c) ==
    IF c = "(" THEN [f EXCEPT !.paren = @ + 1]
    ELSE IF c = ")" THEN [f EXCEPT !.paren = @ - 1]
    ELSE IF c = "\n" /\ f.paren = 0 THEN [f EXCEPT !.bol = TRUE, !.col = 0]
    ELSE f

ScanToken(st, c) ==
    IF c \in WordChars THEN [st EXCEPT !.cur = Append(@, c)]
    ELSE CHOOSE out \in { ScanOther(f, c) : f \in { FlushName(st) } } : TRUE

ScanChar(st, c) ==
    IF st.bol
    THEN IF c = " " THEN [st EXCEPT !.col = @ + 1]
         ELSE IF c = "\t" THEN [st EXCEPT !.col = ((@ \div 8) + 1) * 8]
         ELSE IF c \in { "\n", "\r" } THEN [st EXCEPT !.col = 0]
         ELSE CHOOSE out \in
                { IF d.fault # "none" THEN d ELSE ScanToken(d, c) : d \in { Dent(st) } } : TRUE
    ELSE ScanToken(st, c)

\* end of input: a bracket level other than 0 is "EOF in multi-line statement"
ScanEnd(st) ==
    CHOOSE out \in
      { IF f.paren # 0 THEN [f EXCEPT !.fault = "TokenError"] ELSE f :
          f \in { FlushName(st) } } : TRUE

RECURSIVE ScanFrom(_, _, _)
ScanFrom(source, i, st) ==
    IF st.fault # "none" THEN st
    ELSE IF i > Len(source) THEN ScanEnd(st)
    ELSE CHOOSE out \in
           { ScanFrom(source, j, nxt) : j \in { i + 1 }, nxt \in { ScanChar(st, source[i]) } } : TRUE

\* the NAME tokens generate_tokens yields, and the fault that ended it
generate_tokens(source) ==
    CHOOSE out \in { ScanFrom(x, 1, ScanInit) : x \in {source} } : TRUE

(***************************************************************************)
(* keyword_analytics.tokenize_source, count_keywords_builtins_dunder,      *)
(* run_workflow                                                            *)
(***************************************************************************)
TokenKind(s) == IF s \in PY312_KEYWORDS THEN "keyword" ELSE "name"

\* a tokenizer that keeps only the names found in a reference set
TokenizeResultMatchingOnly(g) ==
    IF g.fault \notin { "none", "TokenError" }
    THEN [ raised |-> g.fault, tokens |-> << >> ]
    ELSE [ raised |-> "none",
           tokens |-> SelectSeq([ i \in 1..Len(g.toks) |-> << TokenKind(g.toks[i]), g.toks[i] >> ],
                                LAMBDA tok : tok[2] \in PY312_KEYWORDS \cup PY312_BUILTINS
                                                          \cup PY312_SPECIAL_METHODS) ]

\* tokens: the (kind, string) list returned; raised: the exception that
\* leaves tokenize_source instead (only TokenError is caught)
TokenizeResult(g) ==
    IF g.fault \notin { "none", "TokenError" }
    THEN [ raised |-> g.fault, tokens |-> << >> ]
    ELSE [ raised |-> "none",
           tokens |-> [ i \in 1..Len(g.toks) |-> << TokenKind(g.toks[i]), g.toks[i] >> ] ]

tokenize_source(source) ==
    CHOOSE out \in { TokenizeResult(g) : g \in { generate_tokens(source) } } : TRUE

\* collections.Counter: c[k] += 1
Incr(c, k) ==
    IF k \in DOMAIN c THEN [c EXCEPT ![k] = @ + 1]
    ELSE [ x \in DOMAIN c \cup {k} |-> IF x = k THEN 1 ELSE c[x] ]

EmptyCounter == [ x \in {} |-> 0 ]

\* a counter that looks a keyword up among the builtins and special methods too
CountTokenNoElif(acc, tok) ==
    [ kw  |-> IF tok[1] = "keyword" THEN Incr(acc.kw, tok[2]) ELSE acc.kw,
      blt |-> IF tok[2] \in PY312_BUILTINS THEN Incr(acc.blt, tok[2]) ELSE acc.blt,
      dnd |-> IF tok[2] \in PY312_SPECIAL_METHODS THEN Incr(acc.dnd, tok[2]) ELSE acc.dnd ]

\* the body of the loop of count_keywords_builtins_dunder
CountToken(acc, tok) ==
    IF tok[1] = "keyword" THEN [acc EXCEPT !.kw = Incr(@, tok[2])]
    ELSE IF tok[1] = "name"
    THEN [ kw  |-> acc.kw,
           blt |-> IF tok[2] \in PY312_BUILTINS THEN Incr(acc.blt, tok[2]) ELSE acc.blt,
           dnd |-> IF tok[2] \in PY312_SPECIAL_METHODS THEN Incr(acc.dnd, tok[2]) ELSE acc.dnd ]
    ELSE acc

RECURSIVE CountFrom(_, _, _)
CountFrom(tokens, i, acc) ==
    IF i > Len(tokens) THEN acc
    ELSE CHOOSE out \in
           { CountFrom(tokens, j, nxt) : j \in { i + 1 }, nxt \in { CountToken(acc, tokens[i]) } } : TRUE

count_keywords_builtins_dunder(tokens) ==
    CHOOSE out \in
      { CountFrom(x, 1, [ kw |-> EmptyCounter, blt |-> EmptyCounter, dnd |-> EmptyCounter ]) :
          x \in {tokens} } : TRUE

\* sum(counter.values())
RECURSIVE SumOver(_, _)
SumOver(c, keys) ==
    IF keys = {} THEN 0
    ELSE CHOOSE out \in
           { c[k] + SumOver(c, keys \ {k}) : k \in { CHOOSE x \in keys : TRUE } } : TRUE

SumValues(c) == CHOOSE out \in { SumOver(x, DOMAIN x) : x \in {c} } : TRUE

LanguageReference == "Python 3.12 (frozen)"

\* run_workflow(in_memory_source=source)
WorkflowResult(t, c) ==
        IF t.raised # "none" THEN [ raised |-> t.raised ]
        ELSE [ raised |-> "none",
               meta |-> [ source |-> "in_memory",
                          language_reference |-> LanguageReference,
                          total_tokens_analyzed |-> Len(t.tokens),
                          total_keyword_occurrences |-> SumValues(c.kw),
                          total_builtin_occurrences |-> SumValues(c.blt),
                          total_dunder_occurrences |-> SumValues(c.dnd) ],
               keyword_freq |-> c.kw,
               builtin_freq |-> c.blt,
               dunder_freq |-> c.dnd ]

run_workflow(source) ==
    CHOOSE out \in
      { WorkflowResult(t, count_keywords_builtins_dunder(t.tokens)) :
          t \in { tokenize_source(source) } } : TRUE

(***************************************************************************)
(* State                                                                   *)
(***************************************************************************)
VARIABLES
    pc,       \* where each request of analyze() stands
    repo,     \* analyze: repo, the stripped request field
    key,      \* analyze: key = _cache_key(repo)
    cache,    \* CACHE_DIR: the content of <key>.json, or NoFile
    fd,       \* the state of the file object a storing request holds
    wpos,     \* that file object's position, in written parts
    tmp,      \* run_workflow_repo: whether the TemporaryDirectory exists
    tree,     \* what clone_repo left in it
    outcome,  \* what run_workflow_repo returns or raises
    resp,     \* the response of analyze()
    hist,     \* per request: what it observed and did (history)
    fnIn,     \* the argument of the function under study
    fnOut,    \* its value
    fnStage   \* "input" before it is applied, "done" after

appVars == << pc, repo, key, cache, fd, wpos, tmp, tree, outcome, resp, hist >>

fnVars == << fnIn, fnOut, fnStage >>

vars == << pc, repo, key, cache, fd, wpos, tmp, tree, outcome, resp, hist,
           fnIn, fnOut, fnStage >>

(***************************************************************************)
(* keyword_analytics._run_workflow_directory                               *)
(*                                                                         *)
(* py_files is the sorted list of the entries rglob("*.py") finds; an      *)
(* entry is [readable, text]: read_text raises OSError on an entry that    *)
(* is not readable.                                                        *)
(***************************************************************************)
\* Counter.update(other): counts are added
CounterUpdate(a, b) ==
    [ x \in DOMAIN a \cup DOMAIN b |->
        (IF x \in DOMAIN a THEN a[x] ELSE 0) + (IF x \in DOMAIN b THEN b[x] ELSE 0) ]

DirInit ==
    [ raised |-> "none", kw |-> EmptyCounter, blt |-> EmptyCounter,
      dnd |-> EmptyCounter, total_tokens |-> 0, files_processed |-> 0,
      total_bytes |-> 0, calls |-> 0 ]

\* one pass of the loop over py_files; calls counts the files handed to
\* tokenize_source
DirMerge(acc, entry, t, c) ==
             IF t.raised # "none"
             THEN [acc EXCEPT !.raised = t.raised, !.calls = @ + 1]
             ELSE [acc EXCEPT !.kw = CounterUpdate(@, c.kw),
                              !.blt = CounterUpdate(@, c.blt),
                              !.dnd = CounterUpdate(@, c.dnd),
                              !.total_tokens = @ + Len(t.tokens),
                              !.files_processed = @ + 1,
                              !.total_bytes = @ + Len(entry.text),
                              !.calls = @ + 1]

DirFile(acc, entry) ==
    IF ~entry.readable THEN acc
    ELSE CHOOSE out \in
           { DirMerge(acc, entry, t, count_keywords_builtins_dunder(t.tokens)) :
               t \in { tokenize_source(entry.text) } } : TRUE

RECURSIVE DirFrom(_, _, _)
DirFrom(py_files, i, acc) ==
    IF acc.raised # "none" \/ i > Len(py_files) THEN acc
    ELSE CHOOSE out \in
           { DirFrom(py_files, j, nxt) : j \in { i + 1 }, nxt \in { DirFile(acc, py_files[i]) } } : TRUE

DirResult(a, source_label) ==
    IF a.raised # "none" THEN [ raised |-> a.raised, calls |-> a.calls ]
    ELSE [ raised |-> "none",
           calls |-> a.calls,
           meta |-> [ source |-> Join(source_label),
                      language_reference |-> LanguageReference,
                      files_processed |-> a.files_processed,
                      total_tokens_analyzed |-> a.total_tokens,
                      total_keyword_occurrences |-> SumValues(a.kw),
                      total_builtin_occurrences |-> SumValues(a.blt),
                      total_dunder_occurrences |-> SumValues(a.dnd),
                      total_bytes |-> a.total_bytes ],
           keyword_freq |-> a.kw,
           builtin_freq |-> a.blt,
           dunder_freq |-> a.dnd ]

_run_workflow_directory(py_files, source_label) ==
    CHOOSE out \in
      { DirResult(a, source_label) : a \in { DirFrom(x, 1, DirInit) : x \in {py_files} } } : TRUE

(***************************************************************************)
(* Bounds and inputs of the request model                                  *)
(***************************************************************************)
\* concurrent requests of the (threaded) server
NumRequests == 2

\* analyze() passes max_files=30_000; the model scales the ceiling down
max_files == 1

\* the most entries of a cloned tree that do not match "*.py"
MaxOther == 1

\* io.DEFAULT_BUFFER_SIZE, scaled to the model's texts: the file object of
\* open(cache_path, "w") hands its text to the operating system in pieces of
\* this size, the last on close
BufferSize == 32

Requests == 1..NumRequests

\* the "repo" fields requests arrive with: none, and two spellings of one
\* repository
RepoInputs ==
    { << >>,
      << " ", "o", "/", "r" >>,
      HttpsGithub \o << "o", "/", "r" >> }

\* len(x)
SrcCall == << "l", "e", "n", "(", "x", ")" >>

\* three lines indented 0, 2, 1: the last matches no outer level
SrcDedent == << "a", "\n", " ", " ", "i", "f", "\n", " ", "c" >>

PyEntries ==
    { [ readable |-> TRUE, text |-> SrcCall ],
      [ readable |-> TRUE, text |-> SrcDedent ],
      [ readable |-> FALSE, text |-> << >> ] }

\* the sequences over S of length at most n
SeqsUpTo(S, n) == UNION { [ 1..k -> S ] : k \in 0..n }

\* what a successful clone can leave: the sorted "*.py" entries and the
\* number of other files
Trees ==
    [ py : SeqsUpTo(PyEntries, max_files + 1), others : 0..MaxOther ]

\* no file at the path; a file is a sequence of pieces of text
NoFile == [ exists |-> FALSE, data |-> << >> ]

File(data) == [ exists |-> TRUE, data |-> data ]

\* the directory holds no clone
NoTree == [ py |-> << >>, others |-> 0 ]

\* a stretch of a file nothing was written to (zero bytes)
Hole == [ of |-> [ hole |-> TRUE ], part |-> 0 ]

\* what a record damaged before the server started holds: the beginning of
\* a text, or bytes that are no text in the encoding open() reads with
Truncated == [ of |-> [ damage |-> "truncated" ], part |-> 0 ]

BadBytes == [ of |-> [ damage |-> "bytes" ], part |-> 0 ]

\* CACHE_DIR outlives the server: at start a key has no record, or one left
\* damaged
InitialRecords == { NoFile, File(<< Truncated >>), File(<< BadBytes >>) }

\* the same without the truncated text: under concurrent requests the
\* incomplete texts are the ones the requests themselves leave
InitialRecordsConcurrent == { NoFile, File(<< BadBytes >>) }

(***************************************************************************)
(* The cache record: json.dump(result, f, indent=2) and json.load(f)       *)
(***************************************************************************)
\* a measure of the length of the text json.dump writes
JsonLen(v) ==
    Len(v.meta.source) + Len(v.meta.repo_url)
      + Cardinality(DOMAIN v.keyword_freq) + Cardinality(DOMAIN v.builtin_freq)
      + Cardinality(DOMAIN v.dunder_freq)

\* the number of pieces the text reaches the file in
Parts(v) == 1 + (JsonLen(v) \div BufferSize)

\* the text of v, piece by piece
Ser(v) == [ i \in 1..Parts(v) |-> [ of |-> v, part |-> i ] ]

\* json.load succeeds on exactly the complete text of a value
Decodes(file) ==
    /\ file.exists
    /\ Len(file.data) > 0
    /\ file.data[1].part = 1
    /\ file.data = Ser(file.data[1].of)

Deser(file) == file.data[1].of

\* a write of one piece at position pos (0-based) of a file
WriteAt(data, pos, piece) ==
    [ i \in 1..(IF Len(data) > pos + 1 THEN Len(data) ELSE pos + 1) |->
        IF i = pos + 1 THEN piece
        ELSE IF i <= Len(data) THEN data[i]
        ELSE Hole ]

(***************************************************************************)
(* app.analyze and keyword_analytics.run_workflow_repo, step by step       *)
(***************************************************************************)
Keys == { _cache_key(i) : i \in { j \in RepoInputs : Strip(j) # << >> } }

NoOutcome == [ kind |-> "none" ]

Raise(exc, msg) == [ kind |-> "raise", exc |-> exc, msg |-> msg ]

Return(v) == [ kind |-> "return", value |-> v ]

NoResp == [ status |-> 0 ]

Json(status, body) == [ status |-> status, body |-> body ]

JsonError(status, msg) == [ status |-> status, error |-> msg ]

HistInit ==
    [ observed |-> "nothing", acquired |-> FALSE, tokenized |-> 0,
      pyCount |-> -1, others |-> -1, error |-> "none", shortcut |-> FALSE,
      unlinked |-> FALSE ]

AppStart(records) ==
    /\ pc = [ r \in Requests |-> "idle" ]
    /\ repo = [ r \in Requests |-> << >> ]
    /\ key = [ r \in Requests |-> Sha256Hex24(<< >>) ]
    /\ cache \in [ Keys -> records ]
    /\ fd = [ r \in Requests |-> "none" ]
    /\ wpos = [ r \in Requests |-> 0 ]
    /\ tmp = [ r \in Requests |-> FALSE ]
    /\ tree = [ r \in Requests |-> NoTree ]
    /\ outcome = [ r \in Requests |-> NoOutcome ]
    /\ resp = [ r \in Requests |-> NoResp ]
    /\ hist = [ r \in Requests |-> HistInit ]

FnIdle ==
    /\ fnIn = << >>
    /\ fnOut = << >>
    /\ fnStage = "off"

\* analyze, lines 39-44: the request field, the 400 for a missing one, the key.
\* Requests are interchangeable, so they are numbered in the order they arrive.
Start(r, input) ==
    /\ pc[r] = "idle"
    /\ \A q \in Requests : q < r => pc[q] # "idle"
    /\ repo' = [repo EXCEPT ![r] = Strip(input)]
    /\ IF Strip(input) = << >>
       THEN /\ resp' = [resp EXCEPT ![r] = JsonError(400, "Missing 'repo'")]
            /\ hist' = [hist EXCEPT ![r].error = "InvalidInput"]
            /\ pc' = [pc EXCEPT ![r] = "done"]
            /\ key' = key
       ELSE /\ key' = [key EXCEPT ![r] = _cache_key(Strip(input))]
            /\ pc' = [pc EXCEPT ![r] = "check"]
            /\ UNCHANGED << resp, hist >>
    /\ UNCHANGED << cache, fd, wpos, tmp, tree, outcome >>
    /\ UNCHANGED fnVars

\* a front end that recomputes whatever the cache holds
CacheHitNever(file) == FALSE

\* analyze, line 45: cache_path.exists()
CacheHit(file) == file.exists

Check(r) ==
    /\ pc[r] = "check"
    /\ pc' = [pc EXCEPT ![r] = IF CacheHit(cache[key[r]]) THEN "load" ELSE "clone"]
    /\ hist' = [hist EXCEPT ![r].shortcut =
                   /\ Decodes(cache[key[r]])
                   /\ \A q \in Requests \ {r} : pc[q] \in { "idle", "check", "load", "done" }]
    /\ UNCHANGED << repo, key, cache, fd, wpos, tmp, tree, outcome, resp >>
    /\ UNCHANGED fnVars

\* analyze, lines 47-48: what open(cache_path) and json.load(f) raise on
\* the file: nothing on the complete text of a value, FileNotFoundError when
\* the file has gone since line 45, UnicodeDecodeError on bytes that are no
\* text, JSONDecodeError on any other text
LoadRaises(file) ==
    IF ~file.exists THEN "FileNotFoundError"
    ELSE IF Decodes(file) THEN "none"
    ELSE IF \E i \in 1..Len(file.data) : file.data[i] = BadBytes THEN "UnicodeDecodeError"
    ELSE "JSONDecodeError"

\* analyze, line 49: except (json.JSONDecodeError, OSError); any other
\* exception leaves analyze
LoadFailure(exc) ==
    IF exc \in { "JSONDecodeError", "FileNotFoundError" } THEN "unlink" ELSE "propagate"

\* what the request saw of the record: the complete text, no file, a record
\* damaged before the start, or a text some request is still writing or
\* that several wrote into
Observed(file) ==
    IF ~file.exists THEN "absent"
    ELSE IF Decodes(file) THEN "complete"
    ELSE IF file \in InitialRecords THEN "damaged"
    ELSE "partial"

\* analyze, lines 46-50; an exception that leaves analyze is answered by
\* the framework with status 500
Load(r) ==
    /\ pc[r] = "load"
    /\ LET c == cache[key[r]] IN
       /\ hist' = [hist EXCEPT ![r].observed = Observed(c),
                               ![r].error = IF LoadRaises(c) # "none"
                                               /\ LoadFailure(LoadRaises(c)) = "propagate"
                                            THEN "CacheFault" ELSE @]
       /\ IF LoadRaises(c) = "none"
          THEN /\ resp' = [resp EXCEPT ![r] = Json(200, Deser(c))]
               /\ pc' = [pc EXCEPT ![r] = "done"]
          ELSE IF LoadFailure(LoadRaises(c)) = "unlink"
          THEN /\ pc' = [pc EXCEPT ![r] = "unlink"]
               /\ resp' = resp
          ELSE /\ pc' = [pc EXCEPT ![r] = "done"]
               /\ resp' = [resp EXCEPT ![r] = JsonError(500, "Internal Server Error")]
    /\ UNCHANGED << repo, key, cache, fd, wpos, tmp, tree, outcome >>
    /\ UNCHANGED fnVars

\* analyze, line 50: cache_path.unlink(missing_ok=True); a file object another
\* request holds on the removed file no longer reaches the path
Unlink(r) ==
    /\ pc[r] = "unlink"
    /\ cache' = [cache EXCEPT ![key[r]] = NoFile]
    /\ fd' = [ q \in Requests |->
                 IF fd[q] = "open" /\ key[q] = key[r] THEN "orphan" ELSE fd[q] ]
    /\ hist' = [hist EXCEPT ![r].unlinked = TRUE]
    /\ pc' = [pc EXCEPT ![r] = "clone"]
    /\ UNCHANGED << repo, key, wpos, tmp, tree, outcome, resp >>
    /\ UNCHANGED fnVars

\* a pre-flight check without the ceiling
PreflightNoCeiling(py_count, ceiling) ==
    IF py_count = 0 THEN "EmptyCorpus" ELSE "none"

\* run_workflow_repo, lines 198-202: the count of the "*.py" entries
\* against zero and against max_files
PreflightError(py_count, ceiling) ==
    IF py_count = 0 THEN "EmptyCorpus"
    ELSE IF py_count > ceiling THEN "CorpusTooLarge"
    ELSE "none"

\* clone_repo (lines 165-182) returns with a tree in the directory, or git
\* fails (CalledProcessError), or git runs out of time (TimeoutExpired)
CloneResults ==
    [ kind : { "cloned" }, tree : Trees ]
      \cup { [ kind |-> "CalledProcessError", tree |-> NoTree ],
             [ kind |-> "TimeoutExpired", tree |-> NoTree ] }

\* one clone result for each way run_workflow_repo can end: git fails, git
\* times out, no "*.py" entry, more than max_files entries, a file that is
\* analysed, a file tokenize rejects
CloneSamples ==
    { c \in CloneResults :
        \/ c.kind # "cloned"
        \/ /\ c.tree.others = 0
           /\ \/ c.tree.py = << >>
              \/ c.tree.py = [ i \in 1..(max_files + 1) |-> [ readable |-> TRUE, text |-> SrcCall ] ]
              \/ c.tree.py = << [ readable |-> TRUE, text |-> SrcCall ] >>
              \/ c.tree.py = << [ readable |-> TRUE, text |-> SrcDedent ] >> }

\* run_workflow_repo, lines 190-202: the TemporaryDirectory is made,
\* clone_repo runs in it, and the pre-flight check counts what it left
Acquire(r, c) ==
    /\ pc[r] = "clone"
    /\ tmp' = [tmp EXCEPT ![r] = TRUE]
    /\ LET e == IF c.kind = "cloned" THEN PreflightError(Len(c.tree.py), max_files)
                ELSE "none"
       IN
       /\ tree' = [tree EXCEPT ![r] = c.tree]
       /\ hist' = [hist EXCEPT
              ![r].acquired = TRUE,
              ![r].pyCount = IF c.kind = "cloned" THEN Len(c.tree.py) ELSE @,
              ![r].others = IF c.kind = "cloned" THEN c.tree.others ELSE @,
              ![r].error = IF c.kind = "CalledProcessError" THEN "AcquisitionFailed"
                           ELSE IF c.kind = "TimeoutExpired" THEN "AcquisitionTimeout"
                           ELSE e]
       /\ outcome' = [outcome EXCEPT ![r] =
              IF c.kind = "CalledProcessError"
              THEN Raise("CalledProcessError", "git clone failed")
              ELSE IF c.kind = "TimeoutExpired"
              THEN Raise("TimeoutExpired", "git clone timed out")
              ELSE IF e = "EmptyCorpus"
              THEN Raise("ValueError", "Repository contains no .py files")
              ELSE IF e = "CorpusTooLarge"
              THEN Raise("ValueError", "Repository has too many .py files")
              ELSE @]
       /\ pc' = [pc EXCEPT ![r] = IF c.kind = "cloned" /\ e = "none" THEN "aggregate"
                                  ELSE "exit"]
    /\ UNCHANGED << repo, key, cache, fd, wpos, resp >>
    /\ UNCHANGED fnVars

\* run_workflow_repo, lines 203-205
Aggregate(r) ==
    /\ pc[r] = "aggregate"
    /\ LET d == _run_workflow_directory(tree[r].py, repo[r]) IN
       /\ hist' = [hist EXCEPT ![r].tokenized = d.calls,
                               ![r].error = IF d.raised # "none" THEN "AnalysisFault" ELSE @]
       /\ outcome' = [outcome EXCEPT ![r] =
            IF d.raised # "none" THEN Raise(d.raised, "unindent does not match")
            ELSE Return([ meta |-> [ source |-> d.meta.source,
                                     language_reference |-> d.meta.language_reference,
                                     files_processed |-> d.meta.files_processed,
                                     total_tokens_analyzed |-> d.meta.total_tokens_analyzed,
                                     total_keyword_occurrences |-> d.meta.total_keyword_occurrences,
                                     total_builtin_occurrences |-> d.meta.total_builtin_occurrences,
                                     total_dunder_occurrences |-> d.meta.total_dunder_occurrences,
                                     total_bytes |-> d.meta.total_bytes,
                                     repo_url |-> Join(repo[r]) ],
                          keyword_freq |-> d.keyword_freq,
                          builtin_freq |-> d.builtin_freq,
                          dunder_freq |-> d.dunder_freq ])]
    /\ pc' = [pc EXCEPT ![r] = "exit"]
    /\ UNCHANGED << repo, key, cache, fd, wpos, tmp, tree, resp >>
    /\ UNCHANGED fnVars

\* a directory removed only when the block ends without an exception
RemovedOnSuccessOnly(oc) == oc.kind = "return"

\* TemporaryDirectory.__exit__: the directory is removed however the block ends
Removed(oc) == TRUE

\* analyze, lines 57-62: the response to what run_workflow_repo raised
ErrorResponse(oc) ==
    IF oc.exc = "ValueError" THEN JsonError(400, oc.msg)
    ELSE IF oc.exc = "TimeoutExpired" THEN JsonError(408, "Clone timed out. Try a smaller repo.")
    ELSE JsonError(500, "Analysis failed")

\* the with block of run_workflow_repo ends (line 190), and analyze goes on
\* to store the result or to answer the exception
ExitWith(r) ==
    /\ pc[r] = "exit"
    /\ tmp' = [tmp EXCEPT ![r] = ~Removed(outcome[r])]
    /\ tree' = [tree EXCEPT ![r] = IF Removed(outcome[r]) THEN NoTree ELSE @]
    /\ IF outcome[r].kind = "return"
       THEN /\ pc' = [pc EXCEPT ![r] = "open_w"]
            /\ resp' = resp
       ELSE /\ pc' = [pc EXCEPT ![r] = "done"]
            /\ resp' = [resp EXCEPT ![r] = ErrorResponse(outcome[r])]
    /\ UNCHANGED << repo, key, cache, fd, wpos, outcome, hist >>
    /\ UNCHANGED fnVars

\* analyze, lines 53-54: CACHE_DIR.mkdir and open(cache_path, "w"), which
\* creates the file or truncates it
OpenW(r) ==
    /\ pc[r] = "open_w"
    /\ cache' = [cache EXCEPT ![key[r]] = File(<< >>)]
    /\ fd' = [fd EXCEPT ![r] = "open"]
    /\ wpos' = [wpos EXCEPT ![r] = 0]
    /\ pc' = [pc EXCEPT ![r] = "dump"]
    /\ UNCHANGED << repo, key, tmp, tree, outcome, resp, hist >>
    /\ UNCHANGED fnVars

\* analyze, lines 55-56: json.dump hands the next piece of the text to the
\* file at this file object's position; after the last the file is closed
\* and the result returned
Dump(r) ==
    /\ pc[r] = "dump"
    /\ LET text == Ser(outcome[r].value) IN
       /\ cache' = IF fd[r] = "open"
                   THEN [cache EXCEPT ![key[r]] = File(WriteAt(@.data, wpos[r], text[wpos[r] + 1]))]
                   ELSE cache
       /\ wpos' = [wpos EXCEPT ![r] = @ + 1]
       /\ IF wpos[r] + 1 = Len(text)
          THEN /\ fd' = [fd EXCEPT ![r] = "closed"]
               /\ pc' = [pc EXCEPT ![r] = "done"]
               /\ resp' = [resp EXCEPT ![r] = Json(200, outcome[r].value)]
          ELSE UNCHANGED << fd, pc, resp >>
    /\ UNCHANGED << repo, key, tmp, tree, outcome, hist >>
    /\ UNCHANGED fnVars

\* concurrent requests
Next ==
    \E r \in Requests :
        \/ \E input \in RepoInputs : Start(r, input)
        \/ Check(r)
        \/ Load(r)
        \/ Unlink(r)
        \/ \E c \in CloneSamples : Acquire(r, c)
        \/ Aggregate(r)
        \/ ExitWith(r)
        \/ OpenW(r)
        \/ Dump(r)

Init == AppStart(InitialRecordsConcurrent) /\ FnIdle

Spec == Init /\ [][Next]_vars

\* one request, over every tree a clone can leave
NextSingle ==
    \/ \E input \in RepoInputs : Start(1, input)
    \/ Check(1)
    \/ Load(1)
    \/ Unlink(1)
    \/ \E c \in CloneResults : Acquire(1, c)
    \/ Aggregate(1)
    \/ ExitWith(1)
    \/ OpenW(1)
    \/ Dump(1)

InitSingle == AppStart(InitialRecords) /\ FnIdle

SpecSingle == InitSingle /\ [][NextSingle]_vars

(***************************************************************************)
(* _normalize_repo_url and _cache_key on the three spellings of a          *)
(* repository                                                              *)
(***************************************************************************)
\* the most pieces an owner or a repository name is put together from
MaxNameAtoms == 2

\* the pieces: a letter, the two punctuation marks of the class [\w.-], an
\* underscore, and the suffix ".git"
NameAtoms == { << "d" >>, << "-" >>, << "." >>, << "_" >>, DotGit }

\* the owners and names of the model: a letter and then pieces, so each is
\* made of characters of [\w.-]
RepoNames == { << "d" >> \o Flatten(a) : a \in SeqsUpTo(NameAtoms, MaxNameAtoms) }

\* owner/name
ShortForm(owner, name) == owner \o << "/" >> \o name

\* https://github.com/owner/name
WebForm(owner, name) == HttpsGithub \o owner \o << "/" >> \o name

\* https://github.com/owner/name.git
GitForm(owner, name) == HttpsGithub \o owner \o << "/" >> \o name \o DotGit

InitNorm ==
    /\ AppStart({ NoFile })
    /\ fnIn \in [ owner : RepoNames, name : RepoNames ]
    /\ fnOut = << >>
    /\ fnStage = "input"

\* the three spellings are normalized and keyed
NormalizeForms ==
    /\ fnStage = "input"
    /\ \E o \in { fnIn.owner } : \E n \in { fnIn.name } :
         fnOut' = [ short |-> _normalize_repo_url(ShortForm(o, n)),
                    web |-> _normalize_repo_url(WebForm(o, n)),
                    git |-> _normalize_repo_url(GitForm(o, n)),
                    shortKey |-> _cache_key(ShortForm(o, n)),
                    webKey |-> _cache_key(WebForm(o, n)),
                    gitKey |-> _cache_key(GitForm(o, n)) ]
    /\ fnStage' = "done"
    /\ UNCHANGED fnIn
    /\ UNCHANGED appVars

NextNorm == NormalizeForms

SpecNorm == InitNorm /\ [][NextNorm]_vars

\* C2: for every owner and name (here: of the characters a short form may
\* hold), owner/name, https://github.com/owner/name and
\* https://github.com/owner/name.git are normalized to one canonical form
\* and get one cache key.
C2_ThreeFormsOneCanonicalForm ==
    fnStage = "done" =>
      /\ fnOut.short = fnOut.web
      /\ fnOut.web = fnOut.git
      /\ fnOut.shortKey = fnOut.webKey
      /\ fnOut.webKey = fnOut.gitKey

(***************************************************************************)
(* run_workflow, tokenize_source and count_keywords_builtins_dunder on     *)
(* texts                                                                   *)
(***************************************************************************)
\* the most names of a text
MaxWords == 3

\* a hard keyword, a soft keyword that is a builtin too, a hard keyword that
\* is a builtin too, the one-character soft keyword, a builtin, a special
\* method, and a name of no reference set
Vocabulary ==
    { << "d", "e", "f" >>,
      << "t", "y", "p", "e" >>,
      << "N", "o", "n", "e" >>,
      << "_" >>,
      << "l", "e", "n" >>,
      << "_", "_", "l", "e", "n", "_", "_" >>,
      << "s", "e", "l", "f" >> }

\* what stands between two names: a blank, an opening bracket (never
\* closed), a line end with an indented next line, a dot
Separators == { << " " >>, << "(" >>, << "\n", " " >>, << "." >> }

\* the words with the separator between each two
Interleave(ws, sep) ==
    Flatten([ i \in 1..(2 * Len(ws) - 1) |->
                IF i % 2 = 1 THEN ws[(i + 1) \div 2] ELSE sep ])

\* def foo(self): return self.__len__()
ExampleText ==
    << "d", "e", "f", " ", "f", "o", "o", "(", "s", "e", "l", "f", ")", ":", " ",
       "r", "e", "t", "u", "r", "n", " ", "s", "e", "l", "f", ".",
       "_", "_", "l", "e", "n", "_", "_", "(", ")" >>

ExampleWords ==
    << << "d", "e", "f" >>, << "f", "o", "o" >>, << "s", "e", "l", "f" >>,
       << "r", "e", "t", "u", "r", "n" >>, << "s", "e", "l", "f" >>,
       << "_", "_", "l", "e", "n", "_", "_" >> >>

\* a text together with the names written in it, in order
Texts ==
    { [ text |-> Interleave(ws, sep), words |-> ws ] :
        ws \in SeqsUpTo(Vocabulary, MaxWords), sep \in Separators }
      \cup { [ text |-> ExampleText, words |-> ExampleWords ] }

InitTok ==
    /\ AppStart({ NoFile })
    /\ fnIn \in Texts
    /\ fnOut = << >>
    /\ fnStage = "input"

\* the text is tokenized, its tokens are counted, and run_workflow is run on it
Analyze ==
    /\ fnStage = "input"
    /\ \E t \in { tokenize_source(fnIn.text) } :
         fnOut' = [ t |-> t,
                    c |-> count_keywords_builtins_dunder(t.tokens),
                    result |-> run_workflow(fnIn.text) ]
    /\ fnStage' = "done"
    /\ UNCHANGED fnIn
    /\ UNCHANGED appVars

NextTok == Analyze

SpecTok == InitTok /\ [][NextTok]_vars

\* what run_workflow returns for the example, but for the token total
ExampleResult(total) ==
    [ raised |-> "none",
      meta |-> [ source |-> "in_memory",
                 language_reference |-> "Python 3.12 (frozen)",
                 total_tokens_analyzed |-> total,
                 total_keyword_occurrences |-> 2,
                 total_builtin_occurrences |-> 0,
                 total_dunder_occurrences |-> 1 ],
      keyword_freq |-> ("def" :> 1) @@ ("return" :> 1),
      builtin_freq |-> EmptyCounter,
      dunder_freq |-> ("__len__" :> 1) ]

\* C9 as stated: for the text "def foo(self): return self.__len__()",
\* run_workflow yields keyword_freq {def: 1, return: 1}, an empty
\* builtin_freq, dunder_freq {__len__: 1}, the totals 2, 0 and 1, and
\* total_tokens_analyzed = 2.
C9_ExampleWithTwoTokens ==
    (fnStage = "done" /\ fnIn.text = ExampleText) => fnOut.result = ExampleResult(2)

\* C9: for the text "def foo(self): return self.__len__()", run_workflow
\* yields keyword_freq {def: 1, return: 1}, an empty builtin_freq,
\* dunder_freq {__len__: 1}, the totals 2, 0 and 1, and
\* total_tokens_analyzed = 6, the number of its NAME tokens (def, foo, self,
\* return, self, __len__).
C9_ExampleWithSixTokens ==
    (fnStage = "done" /\ fnIn.text = ExampleText) =>
      /\ fnOut.result = ExampleResult(6)
      /\ Len(fnOut.t.tokens) = Len(ExampleWords)

C9_Witness ==
    /\ fnStage = "done"
    /\ fnIn.text = ExampleText
    /\ fnOut.result.raised = "none"
    /\ DOMAIN fnOut.result.keyword_freq = { "def", "return" }

\* C10: for every text, each name written in it is counted in the keyword
\* table alone when it is a keyword, and otherwise in the builtin table iff
\* it is a builtin and in the special-method table iff it is a special
\* method; so the tables hold, for every name, the number of times it is
\* written under exactly these conditions, every key of a table belongs to
\* the table's reference set, and no keyword is a key of the builtin or the
\* special-method table.
C10_ClassificationRules ==
    fnStage = "done" =>
      LET names == [ i \in 1..Len(fnIn.words) |-> Join(fnIn.words[i]) ]
          Occ(w) == Cardinality({ i \in 1..Len(names) : names[i] = w })
          Cnt(c, w) == IF w \in DOMAIN c THEN c[w] ELSE 0
          kw == fnOut.c.kw
          blt == fnOut.c.blt
          dnd == fnOut.c.dnd
          all == { names[i] : i \in 1..Len(names) }
                   \cup DOMAIN kw \cup DOMAIN blt \cup DOMAIN dnd
      IN
      /\ fnOut.t.raised = "none"
      /\ \A w \in all :
           /\ Cnt(kw, w) = IF w \in PY312_KEYWORDS THEN Occ(w) ELSE 0
           /\ Cnt(blt, w) = IF w \notin PY312_KEYWORDS /\ w \in PY312_BUILTINS
                            THEN Occ(w) ELSE 0
           /\ Cnt(dnd, w) = IF w \notin PY312_KEYWORDS /\ w \in PY312_SPECIAL_METHODS
                            THEN Occ(w) ELSE 0
      /\ DOMAIN kw \subseteq PY312_KEYWORDS
      /\ DOMAIN blt \subseteq PY312_BUILTINS \ PY312_KEYWORDS
      /\ DOMAIN dnd \subseteq PY312_SPECIAL_METHODS \ PY312_KEYWORDS
      /\ fnOut.result.keyword_freq = kw
      /\ fnOut.result.builtin_freq = blt
      /\ fnOut.result.dunder_freq = dnd

\* a text with a keyword that is a builtin too, a builtin and a special method
C10_Witness ==
    /\ fnStage = "done"
    /\ fnIn.words = << << "t", "y", "p", "e" >>, << "l", "e", "n" >>,
                       << "_", "_", "l", "e", "n", "_", "_" >> >>
    /\ fnOut.c.kw = ("type" :> 1)
    /\ fnOut.c.blt = ("len" :> 1)
    /\ fnOut.c.dnd = ("__len__" :> 1)

(***************************************************************************)
(* The cache under concurrent requests                                     *)
(***************************************************************************)
\* the operation run_workflow_repo of request r has ended
Ended(r) == hist[r].acquired /\ pc[r] \in { "open_w", "dump", "done" }

\* request r recomputed the result, stored it and answered with it
Stored(r) == pc[r] = "done" /\ hist[r].acquired /\ resp[r].status = 200

\* C1: a request that reads the record of its key while another request is
\* storing it observes no record or the complete record, never a
\* half-written one.
C1_ReaderNeverSeesHalfWritten ==
    \A r \in Requests : hist[r].observed # "partial"

\* C3: a request that finds a record it cannot deserialize removes it, goes
\* on to acquisition and aggregation, and answers with what they gave: the
\* removal step leaves no file at the key and leads to the clone, and the
\* answer is the recomputed result or the recomputation's own error, never
\* an error of the cache.
C3_UndecodableRecordIsRecomputed ==
    /\ [](\A r \in Requests :
            hist[r].observed \in { "partial", "damaged" } =>
              /\ pc[r] \in { "unlink", "clone", "aggregate", "exit", "open_w", "dump", "done" }
              /\ pc[r] # "unlink" => hist[r].unlinked
              /\ pc[r] \notin { "unlink", "clone" } => hist[r].acquired
              /\ pc[r] = "done" =>
                   resp[r] = IF outcome[r].kind = "return"
                             THEN Json(200, outcome[r].value)
                             ELSE ErrorResponse(outcome[r]))
    /\ [][\A r \in Requests :
            (pc[r] = "unlink" /\ pc'[r] # "unlink") =>
              (~cache'[key[r]].exists /\ pc'[r] = "clone")]_vars

\* C4: a cloned tree with no "*.py" entry is rejected as an empty corpus
\* however many other files it holds, one with more than max_files entries
\* is rejected as too large, neither after any call of tokenize_source; and
\* whenever tokenize_source has been called the count was between 1 and
\* max_files.
C4_PreflightBeforeTokenizing ==
    \A r \in Requests :
        /\ hist[r].pyCount = 0 =>
             /\ outcome[r] = Raise("ValueError", "Repository contains no .py files")
             /\ hist[r].tokenized = 0
             /\ pc[r] \in { "exit", "done" }
        /\ hist[r].pyCount > max_files =>
             /\ outcome[r] = Raise("ValueError", "Repository has too many .py files")
             /\ hist[r].tokenized = 0
             /\ pc[r] \in { "exit", "done" }
        /\ hist[r].tokenized > 0 => hist[r].pyCount \in 1..max_files
        /\ pc[r] = "aggregate" => hist[r].pyCount \in 1..max_files

C4_Witness ==
    \E r \in Requests :
        /\ pc[r] = "done"
        /\ hist[r].pyCount = 0
        /\ hist[r].others = MaxOther
        /\ hist[r].tokenized = 0
        /\ resp[r] = JsonError(400, "Repository contains no .py files")

\* C5: once run_workflow_repo has ended, with a result or with any
\* exception, its temporary directory and the clone in it are gone, and a
\* result it returned is still held by the caller.
C5_TempDirRemovedOnEveryExit ==
    \A r \in Requests :
        Ended(r) =>
          /\ ~tmp[r]
          /\ tree[r] = NoTree
          /\ pc[r] \in { "open_w", "dump" } => outcome[r].kind = "return"
          /\ (pc[r] = "done" /\ outcome[r].kind = "return") =>
               resp[r] = Json(200, outcome[r].value)

C5_Witness ==
    \E r \in Requests :
        /\ Ended(r)
        /\ hist[r].error = "AnalysisFault"
        /\ hist[r].tokenized > 0
        /\ ~tmp[r]

\* the error kinds the caller is to tell apart
ErrorKinds ==
    { "InvalidInput", "AcquisitionTimeout", "AcquisitionFailed", "EmptyCorpus",
      "CorpusTooLarge" }

\* C6: two requests that failed with different error kinds were answered
\* with different codes.
C6_ErrorKindsHaveDistinctCodes ==
    \A r, q \in Requests :
        ( /\ pc[r] = "done" /\ pc[q] = "done"
          /\ hist[r].error \in ErrorKinds /\ hist[q].error \in ErrorKinds
          /\ hist[r].error # hist[q].error )
        => resp[r].status # resp[q].status

\* C7: a request that reads a complete record answers with it and runs
\* neither the clone nor the aggregation; and when, at its cache check, the
\* record is complete and no other request is between its own check and the
\* end of its store, the request answers with the value in the cache, which
\* is the value the request that stored it returned.
C7_CacheHitShortCircuits ==
    \A r \in Requests :
        /\ hist[r].observed = "complete" =>
             /\ pc[r] = "done"
             /\ resp[r].status = 200
             /\ ~hist[r].acquired
             /\ hist[r].tokenized = 0
             /\ ~tmp[r]
        /\ (pc[r] = "done" /\ hist[r].shortcut) =>
             /\ hist[r].observed = "complete"
             /\ Decodes(cache[key[r]])
             /\ resp[r] = Json(200, Deser(cache[key[r]]))
             /\ \E q \in Requests \ {r} :
                  Stored(q) /\ key[q] = key[r] /\ resp[q] = resp[r]

C7_Witness ==
    \E r \in Requests : pc[r] = "done" /\ hist[r].shortcut /\ resp[r].status = 200

\* C8: when two requests for one key have both recomputed and stored the
\* result, the record left in the cache is the complete result of one of
\* them.
C8_LastWriterWins ==
    \A r, q \in Requests :
        (r # q /\ Stored(r) /\ Stored(q) /\ key[r] = key[q]) =>
          /\ cache[key[r]].exists
          /\ cache[key[r]].data \in { Ser(resp[r].body), Ser(resp[q].body) }


(***************************************************************************)
(* _run_workflow_directory on every small tree                             *)
(***************************************************************************)
\* the most "*.py" entries of a tree
MaxDirFiles == 2

\* the names of path components, in the order of Python's string comparison
PartRank == ("a" :> 1) @@ ("a.py" :> 2) @@ ("b.py" :> 3)

\* the paths below repo_root that match "*.py", as tuples of components
DirPaths ==
    { << "a.py" >>, << "b.py" >>, << "a", "a.py" >>, << "a", "b.py" >> }

\* def __len__(   -- the bracket is never closed
SrcOpen == << "d", "e", "f", " ", "_", "_", "l", "e", "n", "_", "_", "(" >>

\* what can stand at a path: a file of one of three texts, or an entry
\* read_text fails on (a directory named like a module, a file without
\* read permission)
DirEntries == PyEntries \cup { [ readable |-> TRUE, text |-> SrcOpen ] }

\* the trees: a set of entries at distinct paths
DirTrees ==
    UNION { { { [ path |-> p, readable |-> f[p].readable, text |-> f[p].text ] : p \in S } :
                f \in [ S -> DirEntries ] } :
            S \in { T \in SUBSET DirPaths : Cardinality(T) <= MaxDirFiles } }

\* pathlib's PurePath.__lt__: the tuples of components compared as tuples
PathLess(p, q) ==
    \E k \in 1..Len(q) :
        /\ k - 1 <= Len(p)
        /\ \A j \in 1..(k - 1) : p[j] = q[j]
        /\ \/ k = Len(p) + 1
           \/ k <= Len(p) /\ PartRank[p[k]] < PartRank[q[k]]

\* sorted(repo_root.rglob("*.py")): rglob yields the entries in directory
\* order, sorted puts them in path order
SortedRglob(found) ==
    CHOOSE py_files \in [ 1..Cardinality(found) -> found ] :
        \A i, j \in 1..Cardinality(found) :
            i < j => PathLess(py_files[i].path, py_files[j].path)

\* what tokenize_source does on each entry that can be read
PerFile(py_files) ==
    [ i \in 1..Len(py_files) |->
        IF py_files[i].readable
        THEN CHOOSE out \in
               { [ read |-> TRUE, scan |-> g, t |-> TokenizeResult(g),
                   c |-> count_keywords_builtins_dunder(TokenizeResult(g).tokens) ] :
                   g \in { generate_tokens(py_files[i].text) } } : TRUE
        ELSE [ read |-> FALSE ] ]

DirLabel == << "o", "/", "r" >>

InitDir ==
    /\ AppStart({ NoFile })
    /\ fnIn \in DirTrees
    /\ fnOut = << >>
    /\ fnStage = "input"

\* the tree is listed and sorted, and _run_workflow_directory runs over it
RunDirectory ==
    /\ fnStage = "input"
    /\ \E py_files \in { SortedRglob(fnIn) } :
         fnOut' = [ py_files |-> py_files,
                    files |-> PerFile(py_files),
                    result |-> _run_workflow_directory(py_files, DirLabel) ]
    /\ fnStage' = "done"
    /\ UNCHANGED fnIn
    /\ UNCHANGED appVars

NextDir == RunDirectory

SpecDir == InitDir /\ [][NextDir]_vars

\* the entries of the sorted list that could be read
ReadIndices == { i \in 1..Len(fnOut.py_files) : fnOut.files[i].read }

\* C11: whatever fault the scanner hits in a file of the tree,
\* tokenize_source returns for that file the tokens produced before the
\* fault, and _run_workflow_directory goes on with the remaining files and
\* returns a result in which every file that could be read is counted in
\* files_processed.
C11_NoFaultAbortsTheRun ==
    fnStage = "done" =>
      /\ \A i \in ReadIndices :
           /\ fnOut.files[i].t.raised = "none"
           /\ fnOut.files[i].t.tokens =
                [ n \in 1..Len(fnOut.files[i].scan.toks) |->
                    << TokenKind(fnOut.files[i].scan.toks[n]), fnOut.files[i].scan.toks[n] >> ]
      /\ fnOut.result.raised = "none"
      /\ fnOut.result.calls = Cardinality(ReadIndices)
      /\ fnOut.result.meta.files_processed = Cardinality(ReadIndices)


\* the sum of a list of numbers
RECURSIVE SumFrom(_, _)
SumFrom(ns, i) ==
    IF i > Len(ns) THEN 0
    ELSE CHOOSE out \in { ns[i] + SumFrom(ns, j) : j \in { i + 1 } } : TRUE

\* the count of name w that the file at place i of the sorted list adds to
\* table tab ("kw", "blt" or "dnd"): its own count when the file could be
\* read, nothing otherwise
FileCount(i, tab, w) ==
    IF fnOut.files[i].read /\ w \in DOMAIN fnOut.files[i].c[tab]
    THEN fnOut.files[i].c[tab][w] ELSE 0

\* C12: for every tree, the files are taken in path order, and the run
\* returns tables in which the count of each name is the sum of the name's
\* per-file counts over exactly the files that could be read;
\* files_processed is the number of those files and total_tokens_analyzed
\* the sum of their token counts; a file that cannot be read is skipped,
\* is handed to no tokenizer, and does not abort the run.
C12_TablesAreSumsOverReadFiles ==
    fnStage = "done" =>
      LET n == Len(fnOut.py_files)
          res == fnOut.result
          Cnt(c, w) == IF w \in DOMAIN c THEN c[w] ELSE 0
          Total(tab, w) == SumFrom([ i \in 1..n |-> FileCount(i, tab, w) ], 1)
          names == UNION { DOMAIN fnOut.files[i].c.kw \cup DOMAIN fnOut.files[i].c.blt
                             \cup DOMAIN fnOut.files[i].c.dnd : i \in ReadIndices }
      IN
      /\ { fnOut.py_files[i] : i \in 1..n } = fnIn
      /\ n = Cardinality(fnIn)
      /\ \A i, j \in 1..n : i < j => PathLess(fnOut.py_files[i].path, fnOut.py_files[j].path)
      /\ res.raised = "none"
      /\ res.calls = Cardinality(ReadIndices)
      /\ res.meta.files_processed = Cardinality(ReadIndices)
      /\ res.meta.total_tokens_analyzed =
           SumFrom([ i \in 1..n |-> IF fnOut.files[i].read
                                    THEN Len(fnOut.files[i].t.tokens) ELSE 0 ], 1)
      /\ \A w \in names \cup DOMAIN res.keyword_freq \cup DOMAIN res.builtin_freq
                     \cup DOMAIN res.dunder_freq :
           /\ Cnt(res.keyword_freq, w) = Total("kw", w)
           /\ Cnt(res.builtin_freq, w) = Total("blt", w)
           /\ Cnt(res.dunder_freq, w) = Total("dnd", w)
      /\ res.meta.total_keyword_occurrences = SumValues(res.keyword_freq)
      /\ res.meta.total_builtin_occurrences = SumValues(res.builtin_freq)
      /\ res.meta.total_dunder_occurrences = SumValues(res.dunder_freq)

=============================================================================
